---- MODULE Spec2Model ----
(***************************************************************************)
(* Model of the openaichat GStreamer filter (src/filter/imp.rs).           *)
(*                                                                         *)
(* Two threads act on the element: the streaming thread of the host        *)
(* pipeline, which queues an input buffer and calls generate_output, and   *)
(* the single worker thread of the tokio RUNTIME, which polls the tasks    *)
(* spawned by generate_output.  A task suspends at each .await, so the     *)
(* worker polls other tasks while a network call is in flight.  The remote *)
(* service and the downstream sink are the environment.                    *)
(*                                                                         *)
(* Text is a sequence of bytes.                                            *)
(***************************************************************************)
EXTENDS Integers, Sequences, FiniteSets, TLC

(***************************************************************************)
(* Bounds of the model.                                                    *)
(***************************************************************************)
\* number of input buffers the host submits in one session
MaxTurns == 2

(***************************************************************************)
(* Texts and messages.                                                     *)
(***************************************************************************)
TextA == <<65>>
TextB == <<66>>
TextHello == <<72, 101, 108, 108, 111>>
TextHi == <<72, 105>>
TextOk == <<79, 107>>
\* 0xFF never occurs in UTF-8
BytesInvalid == <<255>>

\* the persona text of the priming message (its bytes are abstracted to one)
PRIMING == <<80>>

DEFAULT_MODEL == "gpt-3.5-turbo"
OtherModel == "gpt-4"
Models == {DEFAULT_MODEL, OtherModel}

\* the buffers the host may queue
Chunks == {TextA, TextB, TextHello, BytesInvalid}

\* Option<Buffer> of take_queued_buffer
NoBuffer == [some |-> FALSE, bytes |-> <<>>]

SomeBuffer(bytes) == [some |-> TRUE, bytes |-> bytes]

Message(r, c) == [role |-> r, content |-> c]

SystemMessage == Message("system", PRIMING)

UserMessage(text) == Message("user", text)

(***************************************************************************)
(* str::from_utf8: the validity check of the standard library.  A valid    *)
(* slice is returned unchanged as text.                                    *)
(***************************************************************************)
IsCont(b) == b >= 128 /\ b <= 191

RECURSIVE Utf8Valid(_)
Utf8Valid(bytes) ==
  IF bytes = <<>> THEN TRUE
  ELSE LET b == Head(bytes)
           n == Len(bytes)
       IN  IF b < 128 THEN Utf8Valid(Tail(bytes))
           ELSE IF b >= 194 /\ b <= 223
             THEN n >= 2 /\ IsCont(bytes[2])
                  /\ Utf8Valid(SubSeq(bytes, 3, n))
           ELSE IF b >= 224 /\ b <= 239
             THEN n >= 3 /\ IsCont(bytes[2]) /\ IsCont(bytes[3])
                  /\ (b = 224 => bytes[2] >= 160)
                  /\ (b = 237 => bytes[2] <= 159)
                  /\ Utf8Valid(SubSeq(bytes, 4, n))
           ELSE IF b >= 240 /\ b <= 244
             THEN n >= 4 /\ IsCont(bytes[2]) /\ IsCont(bytes[3])
                  /\ IsCont(bytes[4])
                  /\ (b = 240 => bytes[2] >= 144)
                  /\ (b = 244 => bytes[2] <= 143)
                  /\ Utf8Valid(SubSeq(bytes, 5, n))
           ELSE FALSE

\* Result<&str, Utf8Error> of str::from_utf8
FromUtf8(bytes) ==
  IF Utf8Valid(bytes) THEN [ok |-> TRUE, text |-> bytes]
                      ELSE [ok |-> FALSE, text |-> <<>>]

(***************************************************************************)
(* Responses of the remote service.                                        *)
(***************************************************************************)
\* outcome of HTTPS_CLIENT.request(request).await
RespTransportError == [kind |-> "error", status |-> 0]
RespStatus(s) == [kind |-> "response", status |-> s]
Responses == {RespTransportError, RespStatus(200), RespStatus(500)}
NoResponse == [kind |-> "none", status |-> 0]

\* variant: every status that is not informational counts as success
IsSuccessAnyStatus(status) == status >= 200

\* StatusCode::is_success
IsSuccess(status) == status >= 200 /\ status < 300

\* outcome of reading and parsing the body of a successful response
BodyReadError == [kind |-> "readerror", choices |-> <<>>]
BodyMalformed == [kind |-> "malformed", choices |-> <<>>]
BodyChoices(cs) == [kind |-> "json", choices |-> cs]
Bodies == {BodyReadError, BodyMalformed, BodyChoices(<<>>),
           BodyChoices(<<Message("assistant", TextHi)>>),
           BodyChoices(<<Message("assistant", TextOk),
                         Message("assistant", TextHi)>>)}
NoBody == [kind |-> "none", choices |-> <<>>]

(***************************************************************************)
(* State.                                                                  *)
(***************************************************************************)
VARIABLES
  settings,     \* Settings behind its Mutex: [model]
  history,      \* State.history behind Arc<Mutex<State>>
  poisoned,     \* poison flag of the Mutex around State
  apiKeySet,    \* whether the environment defines OPENAI_API_KEY
  started,      \* start() has returned Ok
  queued,       \* the input buffer queued by the base class, or NoBuffer
  submitted,    \* number of input buffers the host has submitted
  ret,          \* outcome of the latest generate_output call on this buffer
  panicked,     \* the streaming thread panicked inside generate_output
  tasks,        \* the tasks spawned on RUNTIME, in spawn order
  appendOrder,  \* the turns whose reply was appended, in append order
  pushes        \* the calls of src_pad.push, in call order

vars == <<settings, history, poisoned, apiKeySet, started, queued, submitted, ret,
          panicked, tasks, appendOrder, pushes>>

Turns == 1 .. Len(tasks)

\* the task pc values: "queued" (spawned, never polled), "awaitResp"
\* (suspended at line 249), "respReady", "awaitBody" (suspended at line
\* 251), "bodyReady", "appended" (between lines 255 and 263, the worker is
\* inside the poll), "done" (returned), "panicked" (unwound by a panic).
Suspended == {"awaitResp", "awaitBody"}
Finished == {"done", "panicked"}

\* variant: a runtime with a worker to spare for every ready task
WorkerNeverBusy == FALSE

\* variant: a task keeps the worker while its network call is in flight
WorkerBusyWhileInFlight ==
  \E i \in Turns : tasks[i].pc \in {"appended"} \cup Suspended

\* the single worker thread is inside a poll of some task
WorkerBusy == \E i \in Turns : tasks[i].pc = "appended"

\* variant: the worker picks any task that was never polled
NextQueuedAny(i) == tasks[i].pc = "queued"

\* the tasks are first polled in spawn order (the injection queue of the
\* runtime is FIFO and one worker drains it)
NextQueued(i) ==
  /\ tasks[i].pc = "queued"
  /\ \A j \in 1 .. (i - 1) : tasks[j].pc # "queued"

Init ==
  /\ settings = [model |-> DEFAULT_MODEL]
  /\ history = <<>>
  /\ poisoned = FALSE
  /\ apiKeySet \in BOOLEAN
  /\ started = FALSE
  /\ queued = NoBuffer
  /\ submitted = 0
  /\ ret = "none"
  /\ panicked = FALSE
  /\ tasks = <<>>
  /\ appendOrder = <<>>
  /\ pushes = <<>>

(***************************************************************************)
(* The host: configuration and the streaming thread.                       *)
(***************************************************************************)
set_property(m) ==
  /\ settings' = [settings EXCEPT !.model = m]
  /\ UNCHANGED <<history, poisoned, apiKeySet, started, queued, submitted, ret,
                 panicked, tasks, appendOrder, pushes>>

\* start (lines 179-182) logs and returns Ok; it reads neither the
\* environment nor OPENAI_API_KEY
start ==
  /\ ~started
  /\ started' = TRUE
  /\ UNCHANGED <<settings, history, poisoned, apiKeySet, queued, submitted,
                 ret, panicked, tasks, appendOrder, pushes>>

\* the base class queues the arriving buffer before it calls generate_output;
\* once the element has panicked the bindings refuse every further call
SubmitInputBuffer(chunk) ==
  /\ started
  /\ ~panicked
  /\ queued = NoBuffer
  /\ submitted < MaxTurns
  /\ queued' = SomeBuffer(chunk)
  /\ submitted' = submitted + 1
  /\ ret' = "none"
  /\ UNCHANGED <<settings, history, poisoned, apiKeySet, started, panicked, tasks,
                 appendOrder, pushes>>

\* variant: the priming message is pushed on the first turn only
AppendTurnPrimingOnce(h, text) ==
  IF h = <<>> THEN <<SystemMessage, UserMessage(text)>>
              ELSE Append(h, UserMessage(text))

\* lines 210-232: the two pushes and the clone under one lock guard
AppendTurn(h, text) == h \o <<SystemMessage, UserMessage(text)>>

\* variant: the request carries the messages of the current turn only
BuildRequestLastTurn(messages) ==
  [model |-> "gpt-3.5-turbo",
   messages |-> SubSeq(messages, Len(messages) - 1, Len(messages))]

\* lines 234-237
BuildRequest(messages) == [model |-> "gpt-3.5-turbo", messages |-> messages]

NewTask(request) ==
  [request |-> request, pc |-> "queued", resp |-> NoResponse,
   body |-> NoBody]

\* RUNTIME.spawn never waits for the tasks already spawned
CanSpawn(pending) == TRUE

Pending == Cardinality({i \in Turns : tasks[i].pc \notin Finished})

\* generate_output with a queued buffer (lines 203-270)
GenerateOutputBuffer ==
  /\ ~panicked
  /\ queued # NoBuffer
  /\ CanSpawn(Pending)
  /\ queued' = NoBuffer
  /\ LET content == FromUtf8(queued.bytes)
     IN  IF ~content.ok \/ poisoned
           THEN \* unwrap at line 208 or line 211
                /\ panicked' = TRUE
                /\ ret' = "panic"
                /\ UNCHANGED <<history, tasks>>
           ELSE /\ history' = AppendTurn(history, content.text)
                /\ tasks' = Append(tasks, NewTask(BuildRequest(history')))
                /\ ret' = "NoOutput"
                /\ UNCHANGED panicked
  /\ UNCHANGED <<settings, poisoned, apiKeySet, started, submitted, appendOrder,
                 pushes>>

\* variant: a call without a buffer starts a turn on the empty text
GenerateOutputEmptyTurn ==
  /\ started
  /\ ~panicked
  /\ queued = NoBuffer
  /\ Len(tasks) < MaxTurns
  /\ history' = AppendTurn(history, <<>>)
  /\ tasks' = Append(tasks, NewTask(BuildRequest(history')))
  /\ ret' = "NoOutput"
  /\ UNCHANGED <<settings, poisoned, apiKeySet, started, queued, submitted,
                 panicked, appendOrder, pushes>>

\* generate_output without a queued buffer (lines 272-275)
GenerateOutputNoBuffer ==
  /\ started
  /\ ~panicked
  /\ queued = NoBuffer
  /\ ret' = "NoOutput"
  /\ UNCHANGED <<settings, history, poisoned, apiKeySet, started, queued,
                 submitted, panicked, tasks, appendOrder, pushes>>

generate_output == GenerateOutputBuffer \/ GenerateOutputNoBuffer

(***************************************************************************)
(* The worker thread of RUNTIME: one action per poll of a task.            *)
(***************************************************************************)
\* variant: the request holds a reference to the live history, not a copy
SetPcSharingHistory(i, pc) ==
  [tasks EXCEPT ![i].pc = pc, ![i].request.messages = history]

SetPc(i, pc) == [tasks EXCEPT ![i].pc = pc]

\* variant: the task panics with the guard of the history still alive
PoisonedByAnyPanic(guardHeld) == TRUE

\* a panic unwinds the task; the runtime catches it and goes on polling.
\* The Mutex is poisoned only by a panic that happens while its guard is
\* held.
PoisonedAfterPanic(guardHeld) == poisoned \/ guardHeld

\* first poll, lines 242-249: build the request and start the network call
StartCall(i) ==
  /\ i \in Turns
  /\ ~WorkerBusy
  /\ NextQueued(i)
  /\ IF apiKeySet
       THEN /\ tasks' = SetPc(i, "awaitResp")
            /\ UNCHANGED poisoned
       ELSE \* expect at line 63, reached from line 245
            /\ tasks' = SetPc(i, "panicked")
            /\ poisoned' = PoisonedAfterPanic(FALSE)
  /\ UNCHANGED <<settings, history, apiKeySet, started, queued, submitted, ret,
                 panicked, appendOrder, pushes>>

\* the remote service answers, or the transport fails
Respond(i, r) ==
  /\ i \in Turns
  /\ tasks[i].pc = "awaitResp"
  /\ tasks' = [tasks EXCEPT ![i].pc = "respReady", ![i].resp = r]
  /\ UNCHANGED <<settings, history, poisoned, apiKeySet, started, queued,
                 submitted, ret, panicked, appendOrder, pushes>>

\* what a task does with the outcome of its network call, lines 249-251
\* and 265-267
AfterResponse(r) ==
  IF r.kind = "error" THEN "panicked"
  ELSE IF IsSuccess(r.status) THEN "awaitBody"
  ELSE "done"

\* the poll after the network call resolved
HandleResponse(i) ==
  /\ i \in Turns
  /\ ~WorkerBusy
  /\ tasks[i].pc = "respReady"
  /\ tasks' = SetPc(i, AfterResponse(tasks[i].resp))
  /\ poisoned' = IF AfterResponse(tasks[i].resp) = "panicked"
                   THEN PoisonedAfterPanic(FALSE) ELSE poisoned
  /\ UNCHANGED <<settings, history, apiKeySet, started, queued, submitted, ret,
                 panicked, appendOrder, pushes>>

\* the body of a successful response arrives, or reading it fails
BodyArrives(i, b) ==
  /\ i \in Turns
  /\ tasks[i].pc = "awaitBody"
  /\ tasks' = [tasks EXCEPT ![i].pc = "bodyReady", ![i].body = b]
  /\ UNCHANGED <<settings, history, poisoned, apiKeySet, started, queued,
                 submitted, ret, panicked, appendOrder, pushes>>

\* variant: the reply is read from the second choice
BodyHasSecondChoice(b) == b.kind = "json" /\ Len(b.choices) >= 2

\* lines 251-254: the unwraps and the index that a body must pass
BodyHasMessage(b) == b.kind = "json" /\ Len(b.choices) >= 1

\* variant: the reply is the last choice of the response
LastChoice(b) == b.choices[Len(b.choices)]

\* line 254
FirstChoice(b) == b.choices[1]

\* variant: the reply is inserted in front of the pending turns
AppendReplyInFront(h, message) == <<message>> \o h

\* variant: the reply goes downstream without being recorded
AppendReplyDropped(h, message) == h

\* line 255
AppendReply(h, message) == Append(h, message)

\* the poll after the body resolved, lines 251-255
HandleBody(i) ==
  /\ i \in Turns
  /\ ~WorkerBusy
  /\ tasks[i].pc = "bodyReady"
  /\ IF BodyHasMessage(tasks[i].body) /\ ~poisoned
       THEN /\ history' = AppendReply(history, FirstChoice(tasks[i].body))
            /\ appendOrder' = Append(appendOrder, i)
            /\ tasks' = SetPc(i, "appended")
            /\ UNCHANGED poisoned
       ELSE /\ tasks' = SetPc(i, "panicked")
            /\ poisoned' = PoisonedAfterPanic(FALSE)
            /\ UNCHANGED <<history, appendOrder>>
  /\ UNCHANGED <<settings, apiKeySet, started, queued, submitted, ret, panicked,
                 pushes>>

\* line 256
FormatPayload(content) == content \o <<10>>

\* lines 257-262: a buffer of the payload's size, filled with the payload
NewBuffer(turn, payload, accepted) ==
  [turn |-> turn, size |-> Len(payload), data |-> payload,
   accepted |-> accepted]

\* variant: a rejected push is attempted again
AfterPushRetry(accepted) == IF accepted THEN "done" ELSE "appended"

\* line 263: the task returns after an accepted push; the unwrap panics on
\* a rejected one
AfterPush(accepted) == IF accepted THEN "done" ELSE "panicked"

\* lines 256-263, the rest of the same poll; the sink accepts the buffer or
\* rejects it
PushReply(i, accepted) ==
  /\ i \in Turns
  /\ tasks[i].pc = "appended"
  /\ pushes' = Append(pushes,
       NewBuffer(i, FormatPayload(FirstChoice(tasks[i].body).content),
                 accepted))
  /\ tasks' = SetPc(i, AfterPush(accepted))
  /\ poisoned' = IF AfterPush(accepted) = "panicked"
                   THEN PoisonedAfterPanic(FALSE) ELSE poisoned
  /\ UNCHANGED <<settings, history, apiKeySet, started, queued, submitted, ret,
                 panicked, appendOrder>>

WorkerStep ==
  \E i \in Turns :
    \/ StartCall(i)
    \/ HandleResponse(i)
    \/ HandleBody(i)
    \/ \E accepted \in BOOLEAN : PushReply(i, accepted)

Next ==
  \/ start
  \/ \E m \in Models : set_property(m)
  \/ \E chunk \in Chunks : SubmitInputBuffer(chunk)
  \/ GenerateOutputBuffer
  \/ GenerateOutputNoBuffer
  \/ \E i \in Turns : StartCall(i)
  \/ \E i \in Turns, r \in Responses : Respond(i, r)
  \/ \E i \in Turns : HandleResponse(i)
  \/ \E i \in Turns, b \in Bodies : BodyArrives(i, b)
  \/ \E i \in Turns : HandleBody(i)
  \/ \E i \in Turns, accepted \in BOOLEAN : PushReply(i, accepted)

Spec == Init /\ [][Next]_vars

\* the worker thread keeps polling the tasks that are ready; nothing makes
\* the remote service answer or the host submit
FairSpec == Spec /\ WF_vars(WorkerStep)

TypeOK ==
  /\ settings.model \in Models
  /\ poisoned \in BOOLEAN
  /\ submitted \in 0 .. MaxTurns
  /\ Len(tasks) <= submitted

(***************************************************************************)
(* Vocabulary of the properties.                                           *)
(***************************************************************************)
IsPrefix(s, t) == Len(s) <= Len(t) /\ SubSeq(t, 1, Len(s)) = s

\* a step of the streaming thread that is a call of generate_output
CallStep ==
  \/ queued.some /\ ~queued'.some
  \/ ~queued.some /\ ~queued'.some /\ ret' # ret

\* a call of generate_output on a buffer that decodes
TurnStep == queued.some /\ ~queued'.some /\ Utf8Valid(queued.bytes)

\* a call of generate_output on a buffer that does not decode
BadChunkStep == queued.some /\ ~queued'.some /\ ~Utf8Valid(queued.bytes)

\* the positions of the assistant messages in a history, in order
RECURSIVE AssistantPositions(_, _)
AssistantPositions(h, k) ==
  IF k > Len(h) THEN <<>>
  ELSE IF h[k].role = "assistant"
    THEN <<k>> \o AssistantPositions(h, k + 1)
    ELSE AssistantPositions(h, k + 1)

\* the turns of the pushes, in push order
PushTurns == [k \in 1 .. Len(pushes) |-> pushes[k].turn]

InAppendOrder(i) == \E k \in 1 .. Len(appendOrder) : appendOrder[k] = i

PushesOf(i) == {k \in 1 .. Len(pushes) : pushes[k].turn = i}

(***************************************************************************)
(* C1.  Every call of generate_output returns NoOutput, emits no buffer    *)
(* itself, lets no network call complete within it, and is possible        *)
(* however many earlier tasks are still pending.                           *)
(***************************************************************************)
C1_EveryCallReturnsNoOutput ==
  [][CallStep =>
       /\ ret' = "NoOutput"
       /\ pushes' = pushes
       /\ \A i \in Turns : tasks'[i] = tasks[i]]_vars

(***************************************************************************)
(* C2.  A call on a chunk of text appends exactly [system, user(text)] and *)
(* the request of the turn is the history right after that append; a reply *)
(* is appended once per turn, after the turn's own pair.                   *)
(***************************************************************************)
C2_TurnAppend ==
  [][TurnStep =>
       /\ history' = history \o <<SystemMessage, UserMessage(queued.bytes)>>
       /\ Len(tasks') = Len(tasks) + 1
       /\ tasks'[Len(tasks')].request.messages = history'
       /\ appendOrder' = appendOrder]_vars

C2_ReplyAfterOwnPair ==
  /\ Len(AssistantPositions(history, 1)) = Len(appendOrder)
  /\ \A k, l \in 1 .. Len(appendOrder) :
       appendOrder[k] = appendOrder[l] => k = l
  /\ \A k \in 1 .. Len(appendOrder) :
       LET i == appendOrder[k]
           n == Len(tasks[i].request.messages)
       IN  /\ AssistantPositions(history, 1)[k] > n
           /\ history[n - 1] = SystemMessage
           /\ history[n].role = "user"

\* C2: the append of a turn and the place of its reply, together
C2_TurnShape == C2_TurnAppend /\ []C2_ReplyAfterOwnPair

\* a second turn was processed while the first was pending, and a reply has
\* been appended
C2_Witness ==
  /\ Len(tasks) = 2
  /\ Len(appendOrder) >= 1
  /\ Len(tasks[2].request.messages) = 4

(***************************************************************************)
(* C3.  From an empty session, generate_output on "A" builds               *)
(* R1 = [system, user A]; a call on "B" made before the reply to A is      *)
(* appended builds exactly R2 = [system, user A, system, user B].          *)
(***************************************************************************)
R1 == <<SystemMessage, UserMessage(TextA)>>

R2 == <<SystemMessage, UserMessage(TextA), SystemMessage, UserMessage(TextB)>>

C3_RaceShape ==
  [][(/\ TurnStep
      /\ queued.bytes = TextB
      /\ Len(tasks) = 1
      /\ tasks[1].request.messages = R1
      /\ appendOrder = <<>>)
     => (/\ Len(tasks') = 2
         /\ tasks'[1].request.messages = R1
         /\ tasks'[2].request.messages = R2)]_vars

\* the second request was built while the first call was still in flight
C3_Witness ==
  /\ Len(tasks) = 2
  /\ tasks[1].pc = "awaitResp"
  /\ tasks[1].request.messages = R1
  /\ tasks[2].request.messages = R2
  /\ appendOrder = <<>>

(***************************************************************************)
(* C4.  The history is append-only: every step leaves the old history as a *)
(* prefix of the new one.                                                  *)
(***************************************************************************)
C4_AppendOnly == [][IsPrefix(history, history')]_vars

\* a reply was appended behind a turn that was processed in the meantime
C4_Witness ==
  /\ Len(history) = 5
  /\ history[5].role = "assistant"
  /\ Len(appendOrder) = 1

(***************************************************************************)
(* C5.  Happy path: once the first turn of a session, on "Hello", has      *)
(* received a successful response whose first choice is assistant "Hi",    *)
(* the task eventually finishes having pushed exactly one buffer for the   *)
(* turn, and the history holds [system, user Hello] and then the reply;    *)
(* with no other turn it is exactly [system, user Hello, assistant Hi].    *)
(***************************************************************************)
HelloPair == <<SystemMessage, UserMessage(TextHello)>>

HiMessage == Message("assistant", TextHi)

C5_Received ==
  /\ Len(tasks) >= 1
  /\ tasks[1].request.messages = HelloPair
  /\ tasks[1].pc = "bodyReady"
  /\ tasks[1].body = BodyChoices(<<HiMessage>>)

C5_Completed ==
  /\ Len(tasks) >= 1
  /\ tasks[1].pc \in Finished
  /\ Cardinality(PushesOf(1)) = 1
  /\ \A k \in PushesOf(1) : pushes[k].data = TextHi \o <<10>>
  /\ SubSeq(history, 1, 2) = HelloPair
  /\ \E k \in 1 .. Len(appendOrder) :
       /\ appendOrder[k] = 1
       /\ history[AssistantPositions(history, 1)[k]] = HiMessage
  /\ Len(tasks) = 1 /\ ~queued.some => history = HelloPair \o <<HiMessage>>

C5_HappyPath == C5_Received ~> C5_Completed

\* the single turn of a session has completed
C5_Witness ==
  /\ Len(tasks) = 1
  /\ submitted = 1
  /\ tasks[1].pc = "done"
  /\ history = HelloPair \o <<HiMessage>>
  /\ Len(pushes) = 1
  /\ pushes[1].accepted

(***************************************************************************)
(* C6.  As claimed: at most one network call is in flight, a task issues   *)
(* its call only when the calls of all earlier tasks have completed.       *)
(***************************************************************************)
\* the network call of task i has been issued and has not resolved
InFlight(i) == tasks[i].pc \in Suspended

\* task i has been polled, so its network call has begun
Begun(i) == tasks[i].pc # "queued"

C6_OneCallInFlight ==
  /\ Cardinality({i \in Turns : InFlight(i)}) <= 1
  /\ \A i, j \in Turns : i < j /\ Begun(j) => tasks[i].pc \in Finished

(***************************************************************************)
(* C6, amended.  The tasks issue their network calls in submission order   *)
(* and the worker is inside at most one task at a time; a task that awaits *)
(* its response leaves the worker to the next task, so the calls of        *)
(* several turns can be in flight together.                                *)
(***************************************************************************)
C6_CallsBeginInOrder ==
  /\ \A i, j \in Turns : i < j /\ Begun(j) => Begun(i)
  /\ Cardinality({i \in Turns : tasks[i].pc = "appended"}) <= 1

\* the calls of two turns are in flight together
C6_Witness ==
  /\ Len(tasks) = 2
  /\ InFlight(1)
  /\ InFlight(2)

(***************************************************************************)
(* C7.  As claimed: replies are appended and pushed in submission order.   *)
(***************************************************************************)
Increasing(seq) ==
  \A k, l \in 1 .. Len(seq) : k < l => seq[k] < seq[l]

C7_CompletionInSubmissionOrder ==
  /\ Increasing(appendOrder)
  /\ Increasing(PushTurns)

(***************************************************************************)
(* C7, amended.  Replies are appended and pushed in the order in which the *)
(* worker handles the response bodies, which follows the arrival of the    *)
(* responses and not the submissions; each push directly follows its own   *)
(* append, so the buffers go downstream in the order of the assistant      *)
(* messages in the history.                                                *)
(***************************************************************************)
C7_PushOrderIsAppendOrder ==
  /\ IsPrefix(PushTurns, appendOrder)
  /\ Len(appendOrder) <= Len(pushes) + 1
  /\ \A k \in 1 .. Len(appendOrder) :
       history[AssistantPositions(history, 1)[k]]
         = FirstChoice(tasks[appendOrder[k]].body)

\* the later turn was answered first
C7_Witness ==
  /\ appendOrder = <<2, 1>>
  /\ PushTurns = <<2, 1>>
  /\ tasks[1].pc = "done"
  /\ tasks[2].pc = "done"

(***************************************************************************)
(* C8.  A turn answered with a non-success status: the poll that sees the  *)
(* status ends the task and changes neither the history nor the pushes,    *)
(* no reply of that turn is ever appended or pushed, the streaming thread  *)
(* and the lock are unaffected and the worker is free for the other tasks. *)
(***************************************************************************)
RemoteFailed(i) ==
  tasks[i].resp.kind = "response" /\ ~(tasks[i].resp.status \in 200 .. 299)

\* the worker polls task i, whose network call has resolved
SeesResponse(i) == tasks[i].pc = "respReady" /\ tasks'[i].pc # "respReady"

C8_FailureStep ==
  [][\A i \in Turns :
       SeesResponse(i) /\ RemoteFailed(i) =>
         /\ tasks'[i].pc = "done"
         /\ history' = history
         /\ pushes' = pushes
         /\ appendOrder' = appendOrder
         /\ panicked' = panicked
         /\ poisoned' = FALSE
         /\ \A j \in Turns : j # i => tasks'[j] = tasks[j]]_vars

C8_NoReplyOfFailedTurn ==
  \A i \in Turns :
    RemoteFailed(i) =>
      /\ ~InAppendOrder(i)
      /\ PushesOf(i) = {}
      /\ tasks[i].pc \in {"respReady", "done"}
      /\ tasks[i].pc = "done" /\ ~panicked /\ queued.some
           => ENABLED GenerateOutputBuffer

\* C8: the failing poll and what holds of the failed turn ever after
C8_RemoteFailure == C8_FailureStep /\ []C8_NoReplyOfFailedTurn

\* the first turn got HTTP 500; the second was processed after that and
\* its reply went downstream
C8_Witness ==
  /\ Len(tasks) = 2
  /\ tasks[1].resp = RespStatus(500)
  /\ tasks[1].pc = "done"
  /\ history = <<SystemMessage, UserMessage(TextA), SystemMessage,
                 UserMessage(TextB), HiMessage>>
  /\ tasks[2].pc = "done"
  /\ PushTurns = <<2>>
  /\ pushes[1].accepted

(***************************************************************************)
(* C9.  A chunk that is not valid text is dropped: the call appends        *)
(* nothing, spawns nothing and does not crash the streaming thread, and    *)
(* the stage goes on processing.                                           *)
(***************************************************************************)
C9_DecodeFailureDropsChunk ==
  [][BadChunkStep =>
       /\ history' = history
       /\ tasks' = tasks
       /\ ~queued'.some
       /\ ~panicked']_vars

(***************************************************************************)
(* C10.  A turn whose network call fails in the transport, or whose body   *)
(* cannot be read, parsed or has no choice: the task ends at the poll that *)
(* sees the failure and is never polled again, nothing is appended or      *)
(* pushed for it, the streaming thread and the lock are unaffected and the *)
(* other tasks are as they were.                                           *)
(***************************************************************************)
TransportFailed(i) == tasks[i].resp.kind = "error"

BodyFailed(i) ==
  /\ tasks[i].body.kind # "none"
  /\ ~(tasks[i].body.kind = "json" /\ Len(tasks[i].body.choices) >= 1)

SeesBody(i) == tasks[i].pc = "bodyReady" /\ tasks'[i].pc # "bodyReady"

C10_FailureStep ==
  [][\A i \in Turns :
       /\ (SeesResponse(i) /\ TransportFailed(i)) \/ (SeesBody(i) /\ BodyFailed(i))
            => /\ tasks'[i].pc = "panicked"
               /\ history' = history
               /\ pushes' = pushes
               /\ appendOrder' = appendOrder
               /\ panicked' = panicked
               /\ ret' = ret
               /\ poisoned' = FALSE
               /\ \A j \in Turns : j # i => tasks'[j] = tasks[j]
       /\ tasks[i].pc = "panicked" => tasks'[i] = tasks[i]]_vars

C10_NoReplyOfFailedTurn ==
  \A i \in Turns :
    TransportFailed(i) \/ BodyFailed(i) =>
      /\ ~InAppendOrder(i)
      /\ PushesOf(i) = {}
      /\ tasks[i].pc \in {"respReady", "bodyReady", "panicked"}
      /\ ~poisoned
      /\ ~panicked /\ queued.some => ENABLED GenerateOutputBuffer

\* C10: the failing poll and what holds of the failed turn ever after
C10_FailureIsolated == C10_FailureStep /\ []C10_NoReplyOfFailedTurn

\* the second turn's body had no choices; the first turn, still in flight
\* then, completed afterwards
C10_Witness ==
  /\ Len(tasks) = 2
  /\ tasks[2].body = BodyChoices(<<>>)
  /\ tasks[2].pc = "panicked"
  /\ tasks[1].pc = "done"
  /\ PushTurns = <<1>>
  /\ pushes[1].accepted
  /\ Len(history) = 5
  /\ history[5] = HiMessage

(***************************************************************************)
(* C11.  When OPENAI_API_KEY is missing the stage never becomes            *)
(* operational: it is not started, accepts no chunk, appends nothing to    *)
(* the history and submits no request.                                     *)
(***************************************************************************)
C11_MissingKeyIsFatalAtStartup ==
  ~apiKeySet =>
    /\ ~started
    /\ ~queued.some
    /\ history = <<>>
    /\ tasks = <<>>

(***************************************************************************)
(* C12.  The request built by a call of generate_output carries the value  *)
(* of Settings.model at that moment, and no later step changes the model   *)
(* of a request that has been built.                                       *)
(***************************************************************************)
C12_RequestCarriesSettingsModel ==
  [][/\ TurnStep =>
          /\ Len(tasks') = Len(tasks) + 1
          /\ tasks'[Len(tasks')].request.model = settings.model
     /\ \A i \in Turns : tasks'[i].request.model = tasks[i].request.model]_vars

(***************************************************************************)
(* C13.  A push that the sink rejects: the reply is dropped, the turn is   *)
(* never pushed again, the streaming thread, the lock, the history and     *)
(* the other tasks are as they were, and the stage goes on accepting       *)
(* chunks.                                                                 *)
(***************************************************************************)
\* task i calls src_pad.push and the sink rejects the buffer
RejectedPush(i) ==
  /\ tasks[i].pc = "appended"
  /\ Len(pushes') = Len(pushes) + 1
  /\ ~pushes'[Len(pushes')].accepted

C13_RejectionStep ==
  [][\A i \in Turns :
       RejectedPush(i) =>
         /\ tasks'[i].pc \in Finished
         /\ history' = history
         /\ panicked' = panicked
         /\ ret' = ret
         /\ poisoned' = FALSE
         /\ \A j \in Turns : j # i => tasks'[j] = tasks[j]]_vars

C13_DroppedNotRetried ==
  \A k \in 1 .. Len(pushes) :
    ~pushes[k].accepted =>
      /\ PushesOf(pushes[k].turn) = {k}
      /\ tasks[pushes[k].turn].pc \in Finished
      /\ ~panicked /\ queued.some => ENABLED GenerateOutputBuffer

\* C13: the rejected push and what holds of its turn ever after
C13_EmissionFailure == C13_RejectionStep /\ []C13_DroppedNotRetried

\* the push of the first turn was rejected; the second turn was processed
\* after that and its reply went downstream
C13_Witness ==
  /\ Len(pushes) = 2
  /\ pushes[1].turn = 1
  /\ ~pushes[1].accepted
  /\ Len(tasks[2].request.messages) = 5
  /\ pushes[2].turn = 2
  /\ pushes[2].accepted
  /\ tasks[2].pc = "done"
  /\ ~panicked

(***************************************************************************)
(* C14.  The snapshot of a turn is the history as the turn's own appends   *)
(* left it, and taking it changes nothing else; the request built from it  *)
(* is a copy, which no later call of generate_output, no assistant append  *)
(* and no poll of its task changes.  Snapshots of equal length, with no    *)
(* append between them, are equal.                                         *)
(***************************************************************************)
C14_RequestsNeverChange ==
  [][/\ \A i \in Turns : tasks'[i].request = tasks[i].request
     /\ TurnStep =>
          /\ tasks'[Len(tasks')].request.messages = history'
          /\ SubSeq(history', 1, Len(history)) = history
          /\ Len(history') = Len(history) + 2]_vars

C14_EqualSnapshots ==
  \A i, j \in Turns :
    Len(tasks[i].request.messages) = Len(tasks[j].request.messages)
      => tasks[i].request.messages = tasks[j].request.messages

\* C14: purity of the snapshot and immutability of the request
C14_SnapshotPurity == C14_RequestsNeverChange /\ []C14_EqualSnapshots

\* the first request is still in flight, unchanged, after the second turn
\* was processed and the second reply appended
C14_Witness ==
  /\ Len(tasks) = 2
  /\ tasks[1].pc = "awaitBody"
  /\ tasks[1].request.messages = R1
  /\ appendOrder = <<2>>
  /\ Len(history) = 5

(***************************************************************************)
(* C15.  Every buffer pushed downstream is the content of the first choice *)
(* of a successful response of its turn, followed by one line feed, whole, *)
(* in a buffer of exactly that size; a turn whose call, status or body     *)
(* failed has no buffer.                                                   *)
(***************************************************************************)
C15_BufferIsFirstChoice ==
  /\ \A k \in 1 .. Len(pushes) :
       LET t == tasks[pushes[k].turn]
       IN  /\ t.resp.kind = "response"
           /\ t.resp.status \in 200 .. 299
           /\ t.body.kind = "json"
           /\ Len(t.body.choices) >= 1
           /\ pushes[k].data = t.body.choices[1].content \o <<10>>
           /\ pushes[k].size = Len(t.body.choices[1].content) + 1
           /\ pushes[k].size = Len(pushes[k].data)
  /\ \A i \in Turns :
       RemoteFailed(i) \/ TransportFailed(i) \/ BodyFailed(i)
         => PushesOf(i) = {}

\* a response with two choices was pushed, and another turn failed
C15_Witness ==
  /\ Len(pushes) = 1
  /\ pushes[1].data = TextOk \o <<10>>
  /\ pushes[1].size = 3
  /\ Len(tasks[pushes[1].turn].body.choices) = 2
  /\ \E i \in Turns : tasks[i].pc = "done" /\ RemoteFailed(i)

(***************************************************************************)
(* C16.  As claimed: while the network call of a turn has not completed,   *)
(* no turn submitted after it has begun its call, appended a reply or      *)
(* pushed a buffer.                                                        *)
(***************************************************************************)
C16_HungCallStarvesLaterTurns ==
  \A i, j \in Turns :
    i < j /\ InFlight(i) =>
      /\ ~Begun(j)
      /\ ~InAppendOrder(j)
      /\ PushesOf(j) = {}

(***************************************************************************)
(* C16, amended.  A network call that does not complete holds back its own *)
(* turn only: that turn has no reply appended or pushed, but its task is   *)
(* suspended and leaves the worker free, so a turn submitted after it can  *)
(* be polled whenever it is ready, begins its call and appends and pushes  *)
(* its reply.                                                              *)
(***************************************************************************)
WorkerMidPoll == \E k \in Turns : tasks[k].pc = "appended"

C16_HungCallYieldsWorker ==
  /\ \A i \in Turns : InFlight(i) => ~InAppendOrder(i) /\ PushesOf(i) = {}
  /\ \A i, j \in Turns :
       i < j /\ InFlight(i) /\ ~WorkerMidPoll =>
         /\ tasks[j].pc = "queued" /\ (\A k \in 1 .. (j - 1) : Begun(k))
              => ENABLED StartCall(j)
         /\ tasks[j].pc = "respReady" => ENABLED HandleResponse(j)
         /\ tasks[j].pc = "bodyReady" => ENABLED HandleBody(j)

\* the first call is still unanswered; the second turn, submitted after it,
\* has completed and its reply went downstream
C16_Witness ==
  /\ Len(tasks) = 2
  /\ tasks[1].pc = "awaitResp"
  /\ tasks[2].pc = "done"
  /\ appendOrder = <<2>>
  /\ Len(pushes) = 1
  /\ pushes[1].turn = 2
  /\ pushes[1].accepted

(***************************************************************************)
(* C17.  The assistant message is appended before the buffer is pushed:    *)
(* the step that pushes finds the message of its turn in the history and   *)
(* leaves the history alone, so every push, accepted or rejected, has its  *)
(* assistant message in the history.                                       *)
(***************************************************************************)
\* the assistant message of push k is in the history
Recorded(k) ==
  \E m \in 1 .. Len(appendOrder) :
    /\ appendOrder[m] = pushes[k].turn
    /\ m <= Len(AssistantPositions(history, 1))
    /\ history[AssistantPositions(history, 1)[m]].role = "assistant"
    /\ history[AssistantPositions(history, 1)[m]].content \o <<10>>
         = pushes[k].data

C17_PushStep ==
  [][Len(pushes') > Len(pushes) =>
       /\ InAppendOrder(pushes'[Len(pushes')].turn)
       /\ Len(AssistantPositions(history, 1)) = Len(appendOrder)
       /\ history' = history
       /\ appendOrder' = appendOrder]_vars

C17_PushesAreRecorded == \A k \in 1 .. Len(pushes) : Recorded(k)

\* C17: the order of append and push, and its consequence
C17_AppendBeforePush == C17_PushStep /\ []C17_PushesAreRecorded

\* the only push was rejected and its assistant message is in the history
C17_Witness ==
  /\ Len(pushes) = 1
  /\ ~pushes[1].accepted
  /\ tasks[pushes[1].turn].pc = "panicked"
  /\ Len(history) = 3
  /\ history[3] = HiMessage

(***************************************************************************)
(* C18.  The messages of every request are a prefix of the history, when   *)
(* the request is built and ever after.                                    *)
(***************************************************************************)
C18_RequestIsPrefixOfHistory ==
  \A i \in Turns : IsPrefix(tasks[i].request.messages, history)

\* both replies are in the history behind the requests of both turns
C18_Witness ==
  /\ Len(tasks) = 2
  /\ Len(history) = 6
  /\ Len(tasks[1].request.messages) = 2
  /\ Len(tasks[2].request.messages) = 4
  /\ Len(appendOrder) = 2

(***************************************************************************)
(* C19.  The history holds one system and one user message per chunk       *)
(* processed, and one assistant message per turn whose task has read and   *)
(* parsed a successful response, never more than the chunks processed;     *)
(* each assistant message stands behind the [system, user] pair of the     *)
(* turn it answers.                                                        *)
(***************************************************************************)
RECURSIVE CountRole(_, _)
CountRole(h, role) ==
  IF h = <<>> THEN 0
  ELSE (IF Head(h).role = role THEN 1 ELSE 0) + CountRole(Tail(h), role)

\* the turns whose task got a successful response with a first choice
Answered ==
  {i \in Turns :
     /\ tasks[i].resp.kind = "response"
     /\ tasks[i].resp.status \in 200 .. 299
     /\ tasks[i].body.kind = "json"
     /\ Len(tasks[i].body.choices) >= 1
     /\ tasks[i].pc \in {"appended", "done", "panicked"}}

C19_HistoryAccounting ==
  /\ CountRole(history, "system") = Len(tasks)
  /\ CountRole(history, "user") = Len(tasks)
  /\ CountRole(history, "assistant") = Cardinality(Answered)
  /\ CountRole(history, "assistant") <= Len(tasks)
  /\ Len(appendOrder) = Cardinality(Answered)
  /\ \A k \in 1 .. Len(appendOrder) :
       LET i == appendOrder[k]
           n == Len(tasks[i].request.messages)
       IN  /\ i \in Answered
           /\ k <= Len(AssistantPositions(history, 1))
           /\ AssistantPositions(history, 1)[k] > n
           /\ history[n - 1] = SystemMessage
           /\ history[n] = tasks[i].request.messages[n]
           /\ history[n].role = "user"

\* two chunks processed, one turn answered and one failed
C19_Witness ==
  /\ Len(tasks) = 2
  /\ CountRole(history, "system") = 2
  /\ CountRole(history, "assistant") = 1
  /\ \E i \in Turns : tasks[i].pc = "panicked" /\ BodyFailed(i)

(***************************************************************************)
(* C20.  A call of generate_output with no buffer queued returns NoOutput  *)
(* and changes nothing else: no append, no request, no task.               *)
(***************************************************************************)
NoBufferCall == ~queued.some /\ ~queued'.some /\ ret' # ret

C20_NoBufferNoEffect ==
  [][NoBufferCall =>
       /\ ret' = "NoOutput"
       /\ UNCHANGED <<settings, history, poisoned, apiKeySet, started,
                      queued, submitted, panicked, tasks, appendOrder,
                      pushes>>]_vars

\* generate_output was called before any buffer arrived
C20_Witness ==
  /\ started
  /\ ret = "NoOutput"
  /\ submitted = 0
  /\ ~queued.some
  /\ history = <<>>
  /\ tasks = <<>>

====
